---- MODULE Spec2Model ----
(***************************************************************************)
(* The EweGo dashboard (dashboard_app.py): the discovery thread            *)
(* scan_for_devices, the health thread poll_device_health and the Flask    *)
(* handler get_devices, which share the dictionaries discovered_devices    *)
(* and device_health_data under discovery_lock.  The network (the hosts    *)
(* answering GET /api/health) is the environment: every probe draws the    *)
(* answer of the probed host from Responses.                               *)
(* The two stand-alone tools are modelled next to it: scan_network.py run  *)
(* as a script, with its worker pool taken step by step (SpecScan; the     *)
(* dashboard's own call of scan_network is the one step DiscScanDone), and *)
(* the announcement listener of discover_device.py (SpecAnnounce).         *)
(*                                                                         *)
(* A thread's local variable is emptied at the step after which the code   *)
(* does not read it again (devices when its batch is published,            *)
(* devices_to_poll at the end of the cycle, response when it is written).  *)
(* qResult and wrote hold what the last step returned or wrote and are     *)
(* empty after every other step.                                           *)
(***************************************************************************)
EXTENDS Integers, Sequences, FiniteSets, TLC

\* ------------------------------------------------------------------ bounds

\* time.time() is read off a clock that runs from 1 to MaxClock and then
\* stands still (two readings of a coarse clock may be equal).  The clock
\* runs in SpecClock; in Spec every reading is 1.
MaxClock == 2

\* The pool sizes a stand-alone scan is run with: 1..MaxWorkers.
MaxWorkers == 3

\* ------------------------------------------------------------ the network

\* scan_for_devices calls scan_network(max_workers=50).
DefaultWorkers == 50

\* The host addresses of the scanned range (network.hosts()).
Hosts == {"10.0.0.5", "10.0.0.9"}

\* A field a JSON object does not have.
Absent == "<absent>"

\* Decoded JSON values, as far as the dashboard and the scanner look into
\* them: an object with or without device_id / device_name, or null.  Python
\* decodes null to None, the value the poller stores as 'data' for a failed
\* probe.  battery is the battery level the value holds (0: none);
\* battery_json and gps_json tell what JSON value the fields "battery" and
\* "gps" are ("absent", "object", or "number" for a bare level).
None ==
    [json |-> "null", device_id |-> Absent, device_name |-> Absent, battery |-> 0,
     battery_json |-> "absent", gps_json |-> "absent"]

EmptyObject ==
    [json |-> "object", device_id |-> Absent, device_name |-> Absent, battery |-> 0,
     battery_json |-> "absent", gps_json |-> "absent"]

\* What could not be decoded: response.json() raises.
Invalid ==
    [json |-> "invalid", device_id |-> Absent, device_name |-> Absent, battery |-> 0,
     battery_json |-> "absent", gps_json |-> "absent"]

\* A status body that names its device and reports its battery as an object:
\* {"device_id": "pi-01", "device_name": "EweGo-1", "battery": {"level": 72}}.
Pi01Body ==
    [json |-> "object", device_id |-> "pi-01", device_name |-> "EweGo-1", battery |-> 72,
     battery_json |-> "object", gps_json |-> "absent"]

\* A status body that reports its battery as a number:
\* {"device_id": "pi-01", "battery": 72}.
Pi01Flat ==
    [json |-> "object", device_id |-> "pi-01", device_name |-> Absent, battery |-> 72,
     battery_json |-> "number", gps_json |-> "absent"]

\* The status body of this repository's devices (pi_app.py, dummy_server.py):
\* a device_name and no device_id, battery and gps as objects.
NamedBody ==
    [json |-> "object", device_id |-> Absent, device_name |-> "RPi CM4 - Sensor System",
     battery |-> 72, battery_json |-> "object", gps_json |-> "object"]

\* The status bodies a host can send: pi-01 can be at either address (it can
\* move, and both hosts can claim to be it), with its battery as an object or,
\* at the first address, as a number; the second address can also be a device
\* of this repository or send an empty object.
Bodies(h) ==
    IF h = "10.0.0.5" THEN {Pi01Flat, Pi01Body} ELSE {EmptyObject, Pi01Body, NamedBody}

\* The outcome of one requests.get to host h: an HTTP response (status code
\* and body), or the exception requests raises (a timeout, here after part of
\* a body was received; a connection error).
Responses(h) ==
    { [kind |-> "http", code |-> 200, body |-> b] : b \in Bodies(h) \cup {Invalid} }
      \cup { [kind |-> "http", code |-> 500, body |-> None],
             [kind |-> "timeout", code |-> 0, body |-> Pi01Body],
             [kind |-> "unreachable", code |-> 0, body |-> None] }

\* The outcomes of a probe of a host that no longer answers.
DownResponses(h) == { r \in Responses(h) : r.kind \in {"timeout", "unreachable"} }

\* ------------------------------------------------------------ python dicts

\* discovered_devices is an insertion-ordered dict: a sequence of items, each
\* holding its key (device_id) and the fields of its value.
Keys(d) == { d[i].device_id : i \in DOMAIN d }

Get(d, k) == d[CHOOSE i \in DOMAIN d : d[i].device_id = k]

\* Mutant of Put: the item is added without looking for its key (a list
\* where the code has a dict).
PutAppend(d, item) == Append(d, item)

\* d[k] = item: an existing key keeps its place, a new key goes last.
Put(d, item) ==
    IF item.device_id \in Keys(d)
    THEN [i \in DOMAIN d |-> IF d[i].device_id = item.device_id THEN item ELSE d[i]]
    ELSE Append(d, item)

\* f"http://{device['ip']}:5000"
Url(ip) == <<"http", ip, 5000>>

\* ------------------------------------------------------------ scan_network

NoDevice == [ip |-> "", device_id |-> "", device_name |-> ""]

\* A variant of check_device that identifies a device without device_id by
\* its address.
check_deviceIpAsId(ip, r) ==
    IF r.kind = "http" /\ r.code = 200 /\ r.body.json = "object"
       /\ (r.body.device_id # Absent \/ r.body.device_name # Absent)
       /\ r.body.battery_json \in {"absent", "object"}
       /\ r.body.gps_json \in {"absent", "object"}
    THEN [ip |-> ip,
          device_id |-> IF r.body.device_id # Absent THEN r.body.device_id ELSE ip,
          device_name |-> IF r.body.device_name # Absent THEN r.body.device_name
                          ELSE "Unknown Device"]
    ELSE NoDevice

\* check_device: a dict for a 200 whose body decodes to an object holding
\* device_id or device_name, None for everything else: the bare except
\* swallows the exception of requests.get, of response.json(), of
\* "'device_id' in None", and of data.get('battery', {}).get('level', 'N/A')
\* and data.get('gps', {}).get('fix', 'unknown') when "battery" or "gps" is
\* present and not an object.
check_device(ip, r) ==
    IF r.kind = "http" /\ r.code = 200 /\ r.body.json = "object"
       /\ (r.body.device_id # Absent \/ r.body.device_name # Absent)
       /\ r.body.battery_json \in {"absent", "object"}
       /\ r.body.gps_json \in {"absent", "object"}
    THEN [ip |-> ip,
          device_id |-> IF r.body.device_id # Absent THEN r.body.device_id ELSE "unknown",
          device_name |-> IF r.body.device_name # Absent THEN r.body.device_name
                          ELSE "Unknown Device"]
    ELSE NoDevice

\* The orders in which the probes of a scan can complete (as_completed).
CompletionOrders ==
    { o \in [1..Cardinality(Hosts) -> Hosts] : \A h \in Hosts : \E i \in DOMAIN o : o[i] = h }

RECURSIVE Collect(_, _, _)
\* scan_network's collection loop: the non-None results, in completion order.
Collect(order, answers, i) ==
    IF i > Len(order) THEN <<>>
    ELSE LET result == check_device(order[i], answers[order[i]])
         IN  (IF result # NoDevice THEN <<result>> ELSE <<>>)
               \o Collect(order, answers, i + 1)

scan_network(order, answers) == Collect(order, answers, 1)

\* ---------------------------------------------------- service announcements

\* What zc.get_service_info(type_, name) returns for a well-formed
\* announcement: the TXT properties, the addresses and the port.
ServiceInfo(name, device_id, addresses) ==
    [name |-> name, info |-> "ok", device_id |-> device_id, addresses |-> addresses,
     port |-> 5000]

\* The service announcements on the network: pi-01 announces at 10.0.0.5:5000.
Announcements == { ServiceInfo("pi-01._ewego._tcp.local.", "pi-01", <<"10.0.0.5">>) }

\* The service names of the type the browser listens for.
ServiceNames == {"pi-01._ewego._tcp.local.", "pi-02._ewego._tcp.local."}

\* Everything an "added" event can find: the service info is unavailable
\* (get_service_info returns None), its metadata is malformed (a property
\* without a value, or a server name that is missing: .decode / .rstrip
\* raise), or it is well formed, with or without a device_id property and
\* with or without an address.
Traffic ==
    UNION { { ServiceInfo(n, "pi-01", <<"10.0.0.5">>),
              ServiceInfo(n, Absent, <<"10.0.0.9">>),
              ServiceInfo(n, "pi-02", <<>>),
              [name |-> n, info |-> "none", device_id |-> Absent, addresses |-> <<>>,
               port |-> 0],
              [name |-> n, info |-> "malformed", device_id |-> Absent,
               addresses |-> <<"10.0.0.5">>, port |-> 5000] } : n \in ServiceNames }

\* The record add_service builds from a well-formed service info:
\* device_id defaults to 'unknown', the ip is the first address or "unknown".
ListenerRecord(info) ==
    [device_id |-> IF info.device_id = Absent THEN "unknown" ELSE info.device_id,
     ip |-> IF info.addresses # <<>> THEN info.addresses[1] ELSE "unknown",
     port |-> info.port]

\* self.devices[name] = {...}
Upsert(devs, name, rec) ==
    [n \in DOMAIN devs \cup {name} |-> IF n = name THEN rec ELSE devs[n]]

\* -------------------------------------------------------------- the state

VARIABLES
    discovered_devices,   \* dict device_id -> {ip, url, device_name}
    device_health_data,   \* dict device_id -> {status, data, last_updated}
    discovery_lock,       \* "free" or the thread holding it
    now,                  \* the clock time.time() reads
    discPc,               \* scan_for_devices: where the thread is
    devices,              \* scan_for_devices: the last scan's result
    discIdx,              \* scan_for_devices: position of "for device in devices"
    pollPc,               \* poll_device_health: where the thread is
    devices_to_poll,      \* poll_device_health: the cycle's copy of the dict
    pollIdx,              \* poll_device_health: position of the for loop
    response,             \* poll_device_health: outcome of the last requests.get
    qResult,              \* get_devices: what the last step returned or raised, if it was a request
    published,            \* history: the batch of the last completed discovery cycle
    written,              \* history: the device_ids written in the running poll cycle
    wrote,                \* history: the health write of the last step, if it was one
    netDown,              \* environment: no host answers any more
    watch,                \* history: the devices that were online when the net went down
    answers_null,         \* environment: a host can answer with the JSON body null
    cycleDown,            \* history: the running poll cycle started after that
    settled,              \* history: a poll cycle that started after that has completed
    max_workers,          \* scan_network: the size of the worker pool
    scanPc,               \* scan_network: where the call is
    work_queue,           \* scan_network: the submitted probes no worker has taken yet
    in_flight,            \* scan_network: the addresses whose check_device is running
    completed,            \* history: the probes in the order they completed, with their outcomes
    scan_devices,         \* scan_network: its list "devices"
    listener_devices,     \* EweGoListener.devices: service name -> announced device
    channel,              \* environment: the service infos zeroconf can deliver
    decode_failed,        \* history: the last add_service that raised, and the map it left
    stopped,              \* the dashboard process has exited
    gps_running,          \* pi_app: init_gps has started the GPS thread
    gps_data,             \* pi_app: the dict the GPS thread fills
    device_recording,     \* pi_app: its global recording_state
    device_clock,         \* pi_app: the time time.time() reads on the device
    device_response       \* history: the last response the device has sent

vars == <<discovered_devices, device_health_data, discovery_lock, now, discPc, devices,
          discIdx, pollPc, devices_to_poll, pollIdx, response, qResult,
          published, written, wrote, netDown, watch, answers_null, cycleDown, settled,
          max_workers, scanPc, work_queue, in_flight, completed, scan_devices,
          listener_devices, channel, decode_failed, stopped,
          gps_running, gps_data, device_recording, device_clock, device_response>>

discVars == <<discPc, devices, discIdx>>
pollVars == <<pollPc, devices_to_poll, pollIdx, response>>
downVars == <<netDown, watch, answers_null>>
poolVars == <<max_workers, scanPc, work_queue, in_flight, completed, scan_devices>>

\* The state of the stand-alone tools (scan_network.py and discover_device.py
\* run as scripts), which the dashboard's threads never touch.
listenerVars == <<listener_devices, channel, decode_failed>>

\* The state of a device's own application (pi_app.py), which runs on
\* another machine.
deviceVars == <<gps_running, gps_data, device_recording, device_clock, device_response>>

toolVars == <<poolVars, listenerVars, deviceVars>>

NoResponse == [kind |-> "none", code |-> 0, body |-> None]

NoResult == [kind |-> "none", devices |-> <<>>, count |-> 0]

NoWrite == [device_id |-> "", response |-> NoResponse]

\* The dashboard when __main__ has started its threads.
DashboardStart ==
    /\ discovered_devices = <<>>
    /\ device_health_data = <<>>
    /\ discovery_lock = "free"
    /\ now = 1
    /\ discPc = "loop"
    /\ devices = <<>>
    /\ discIdx = 1
    /\ pollPc = "loop"
    /\ devices_to_poll = <<>>
    /\ pollIdx = 1
    /\ response = NoResponse
    /\ qResult = NoResult
    /\ published = <<>>
    /\ written = {}
    /\ wrote = NoWrite
    /\ netDown = FALSE
    /\ watch = {}
    /\ cycleDown = FALSE
    /\ settled = FALSE
    /\ stopped = FALSE

\* scan_network(max_workers=w) before it is called.
PoolStart(w) ==
    /\ max_workers = w
    /\ scanPc = "idle"
    /\ work_queue = <<>>
    /\ in_flight = {}
    /\ completed = <<>>
    /\ scan_devices = <<>>

\* What the device has sent when it has not answered any request yet.
\* A response body without a gps section.
NoGps == [present |-> FALSE, connected |-> FALSE, fix |-> Absent, available |-> FALSE]

NoDeviceResponse ==
    [route |-> "none", code |-> 0, recording |-> Absent, message |-> Absent, gps |-> NoGps]

\* pi_app.py when __main__ has run init_gps (g: whether it could open the
\* GPS and start the reading thread) and the Flask server starts: the module
\* globals as initialised, gps_data without a 'last_update' key.
DeviceStart(g) ==
    /\ gps_running = g
    /\ gps_data = [connected |-> FALSE, fix |-> "error", available |-> FALSE,
                   has_last_update |-> FALSE, last_update |-> 0]
    /\ device_recording = FALSE
    /\ device_clock = 1
    /\ device_response = NoDeviceResponse

\* EweGoListener.__init__: self.devices = {}
ListenerStart ==
    /\ listener_devices = <<>>
    /\ decode_failed = [seen |-> FALSE, devices |-> <<>>]

Init ==
    /\ DashboardStart
    /\ PoolStart(DefaultWorkers)
    /\ ListenerStart
    /\ channel = Announcements
    /\ DeviceStart(FALSE)
    /\ answers_null = FALSE

\* The answers a probe of host h can get in the current state of the network.
Answers(h) ==
    IF netDown THEN DownResponses(h)
    ELSE IF answers_null THEN Responses(h) \cup {[kind |-> "http", code |-> 200, body |-> None]}
    ELSE Responses(h)

\* What every host answers to one round of probes.
AnswerMaps == { a \in [Hosts -> UNION { Answers(h) : h \in Hosts }] :
                  \A h \in Hosts : a[h] \in Answers(h) }

\* ------------------------------------------------------------------ clock

Tick ==
    /\ now < MaxClock
    /\ now' = now + 1
    /\ qResult' = NoResult
    /\ wrote' = NoWrite
    /\ UNCHANGED <<toolVars, stopped>>
    /\ UNCHANGED <<discovered_devices, device_health_data, discovery_lock, discVars,
                   pollVars, published, written, downVars, cycleDown, settled>>

\* ------------------------------------------------------- scan_for_devices

\* Mutant of DeviceRecord: a key the dict already holds gets its ip updated in
\* place, the url and the name keeping their old values.
DeviceRecordInPlace(device) ==
    IF device.device_id \in Keys(discovered_devices)
    THEN [Get(discovered_devices, device.device_id) EXCEPT !.ip = device.ip]
    ELSE [device_id |-> device.device_id,
          ip |-> device.ip,
          url |-> Url(device.ip),
          device_name |-> device.device_name]

\* discovered_devices[device_id] = {'ip': ..., 'url': ..., 'device_name': ...}
DeviceRecord(device) ==
    [device_id |-> device.device_id,
     ip |-> device.ip,
     url |-> Url(device.ip),
     device_name |-> device.device_name]

RECURSIVE Inserted(_, _, _)
\* for device in devices: discovered_devices[device_id] = {...}, from
\* position i of the list on.
Inserted(dd, list, i) ==
    IF i > Len(list) THEN dd
    ELSE Inserted(Put(dd, DeviceRecord(list[i])), list, i + 1)

\* The directory a discovery cycle leaves for a scan result:
\* discovered_devices.clear() and the inserts, under the lock.
Published(list) == Inserted(<<>>, list, 1)

\* Mutant of DiscScanStart: the scan is called inside the with block.
DiscScanStartLocked ==
    /\ discPc = "loop"
    /\ discovery_lock = "free"
    /\ discovery_lock' = "disc"
    /\ discPc' = "scanning"
    /\ qResult' = NoResult
    /\ wrote' = NoWrite
    /\ UNCHANGED <<toolVars, stopped>>
    /\ UNCHANGED <<discovered_devices, device_health_data, now, devices, discIdx,
                   pollVars, published, written, downVars, cycleDown, settled>>

\* devices = scan_network(max_workers=50) is called; the scan is in flight.
DiscScanStart ==
    /\ discPc = "loop"
    /\ discPc' = "scanning"
    /\ qResult' = NoResult
    /\ wrote' = NoWrite
    /\ UNCHANGED <<toolVars, stopped>>
    /\ UNCHANGED <<discovered_devices, device_health_data, discovery_lock, now, devices,
                   discIdx, pollVars, published, written, downVars, cycleDown,
                   settled>>

\* scan_network returns: every host has answered or failed, the probes
\* having completed in some order.
DiscScanDone ==
    /\ discPc = "scanning"
    /\ \E order \in CompletionOrders, answers \in AnswerMaps :
          devices' = scan_network(order, answers)
    /\ discPc' = "acquire"
    /\ qResult' = NoResult
    /\ wrote' = NoWrite
    /\ UNCHANGED <<toolVars, stopped>>
    /\ UNCHANGED <<discovered_devices, device_health_data, discovery_lock, now, discIdx,
                   pollVars, published, written, downVars, cycleDown, settled>>

\* Mutant of DiscScanFail: the cycle that failed empties the directory.
DiscScanFailClears ==
    /\ discPc = "scanning"
    /\ discPc' = "except"
    /\ discovered_devices' = <<>>
    /\ qResult' = NoResult
    /\ wrote' = NoWrite
    /\ UNCHANGED <<toolVars, stopped>>
    /\ UNCHANGED <<device_health_data, discovery_lock, now, devices,
                   discIdx, pollVars, published, written, downVars, cycleDown,
                   settled>>

\* scan_network raises (IPv4Network rejects the range): control passes to
\* "except Exception as e", devices keeps its value.
DiscScanFail ==
    /\ discPc = "scanning"
    /\ discPc' = "except"
    /\ qResult' = NoResult
    /\ wrote' = NoWrite
    /\ UNCHANGED <<toolVars, stopped>>
    /\ UNCHANGED <<discovered_devices, device_health_data, discovery_lock, now, devices,
                   discIdx, pollVars, published, written, downVars, cycleDown,
                   settled>>

\* print(f"Discovery error: {e}"), and the thread sleeps 30 s as after every
\* other cycle.
DiscExcept ==
    /\ discPc = "except"
    /\ discPc' = "loop"
    /\ qResult' = NoResult
    /\ wrote' = NoWrite
    /\ UNCHANGED <<toolVars, stopped>>
    /\ UNCHANGED <<discovered_devices, device_health_data, discovery_lock, now, devices,
                   discIdx, pollVars, published, written, downVars, cycleDown,
                   settled>>

\* Mutant of DiscAcquire: the batch is written without taking the lock.
DiscAcquireNoLock ==
    /\ discPc = "acquire"
    /\ discPc' = "clear"
    /\ qResult' = NoResult
    /\ wrote' = NoWrite
    /\ UNCHANGED <<toolVars, stopped>>
    /\ UNCHANGED <<discovered_devices, device_health_data, discovery_lock, now, devices,
                   discIdx, pollVars, published, written, downVars, cycleDown, settled>>

\* with discovery_lock:
DiscAcquire ==
    /\ discPc = "acquire"
    /\ discovery_lock = "free"
    /\ discovery_lock' = "disc"
    /\ discPc' = "clear"
    /\ qResult' = NoResult
    /\ wrote' = NoWrite
    /\ UNCHANGED <<toolVars, stopped>>
    /\ UNCHANGED <<discovered_devices, device_health_data, now, devices, discIdx,
                   pollVars, published, written, downVars, cycleDown, settled>>

\* Mutant of DiscClear: the dict is not cleared before the batch is written.
DiscClearNot ==
    /\ discPc = "clear"
    /\ discIdx' = 1
    /\ discPc' = "insert"
    /\ qResult' = NoResult
    /\ wrote' = NoWrite
    /\ UNCHANGED <<toolVars, stopped>>
    /\ UNCHANGED <<discovered_devices, device_health_data, discovery_lock, now, devices,
                   pollVars, published, written, downVars, cycleDown, settled>>

\* The records of the devices the listener holds, in a fixed order.
RECURSIVE AnnouncedRecords(_)
AnnouncedRecords(names) ==
    IF names = {} THEN <<>>
    ELSE LET n == CHOOSE x \in names : TRUE
         IN  <<[device_id |-> listener_devices[n].device_id,
                ip |-> listener_devices[n].ip,
                url |-> Url(listener_devices[n].ip),
                device_name |-> n]>> \o AnnouncedRecords(names \ {n})

\* Mutant of DiscClear: the batch starts from the listener's devices instead
\* of an empty dict.
DiscClearToAnnounced ==
    /\ discPc = "clear"
    /\ discovered_devices' = AnnouncedRecords(DOMAIN listener_devices)
    /\ discIdx' = 1
    /\ discPc' = "insert"
    /\ qResult' = NoResult
    /\ wrote' = NoWrite
    /\ UNCHANGED <<toolVars, stopped>>
    /\ UNCHANGED <<device_health_data, discovery_lock, now, devices, pollVars,
                   published, written, downVars, cycleDown, settled>>

\* Mutant of DiscClear: the health observations are cleared with the records.
DiscClearAll ==
    /\ discPc = "clear"
    /\ discovered_devices' = <<>>
    /\ device_health_data' = <<>>
    /\ discIdx' = 1
    /\ discPc' = "insert"
    /\ qResult' = NoResult
    /\ wrote' = NoWrite
    /\ UNCHANGED <<toolVars, stopped>>
    /\ UNCHANGED <<discovery_lock, now, devices, pollVars,
                   published, written, downVars, cycleDown, settled>>

\* discovered_devices.clear()
DiscClear ==
    /\ discPc = "clear"
    /\ discovered_devices' = <<>>
    /\ discIdx' = 1
    /\ discPc' = "insert"
    /\ qResult' = NoResult
    /\ wrote' = NoWrite
    /\ UNCHANGED <<toolVars, stopped>>
    /\ UNCHANGED <<device_health_data, discovery_lock, now, devices, pollVars,
                   published, written, downVars, cycleDown, settled>>

\* One turn of "for device in devices".
DiscInsert ==
    /\ discPc = "insert"
    /\ discIdx <= Len(devices)
    /\ discovered_devices' = Put(discovered_devices, DeviceRecord(devices[discIdx]))
    /\ discIdx' = discIdx + 1
    /\ qResult' = NoResult
    /\ wrote' = NoWrite
    /\ UNCHANGED <<toolVars, stopped>>
    /\ UNCHANGED <<device_health_data, discovery_lock, now, discPc, devices, pollVars,
                   published, written, downVars, cycleDown, settled>>

\* The loop is over: the with block ends, the lock is released and the
\* thread sleeps 30 s.
DiscRelease ==
    /\ discPc = "insert"
    /\ discIdx > Len(devices)
    /\ discovery_lock' = "free"
    /\ discPc' = "loop"
    /\ published' = devices
    /\ devices' = <<>>
    /\ discIdx' = 1
    /\ qResult' = NoResult
    /\ wrote' = NoWrite
    /\ UNCHANGED <<toolVars, stopped>>
    /\ UNCHANGED <<discovered_devices, device_health_data, now, pollVars, written,
                   downVars, cycleDown, settled>>

\* ----------------------------------------------------- poll_device_health

\* Mutant of Observation: the online branch stores no data.
ObservationNoData(r, t) ==
    IF r.kind = "http"
    THEN IF r.code = 200
         THEN IF r.body.json = "invalid"
              THEN [status |-> "offline", data |-> None, last_updated |-> t]
              ELSE [status |-> "online", data |-> None, last_updated |-> t]
         ELSE [status |-> "error", data |-> None, last_updated |-> t]
    ELSE [status |-> "offline", data |-> None, last_updated |-> t]

\* Mutant of Observation: what was received before the timeout is kept as an
\* online observation.
ObservationKeepsPartial(r, t) ==
    IF r.kind = "http"
    THEN IF r.code = 200
         THEN IF r.body.json = "invalid"
              THEN [status |-> "offline", data |-> None, last_updated |-> t]
              ELSE [status |-> "online", data |-> r.body, last_updated |-> t]
         ELSE [status |-> "error", data |-> None, last_updated |-> t]
    ELSE IF r.kind = "timeout" /\ r.body # None
         THEN [status |-> "online", data |-> r.body, last_updated |-> t]
         ELSE [status |-> "offline", data |-> None, last_updated |-> t]

\* Mutant of Observation: the except branch records error instead of offline.
ObservationErrorOnException(r, t) ==
    IF r.kind = "http"
    THEN IF r.code = 200
         THEN IF r.body.json = "invalid"
              THEN [status |-> "error", data |-> None, last_updated |-> t]
              ELSE [status |-> "online", data |-> r.body, last_updated |-> t]
         ELSE [status |-> "error", data |-> None, last_updated |-> t]
    ELSE [status |-> "error", data |-> None, last_updated |-> t]

\* The dict the poller stores for the outcome r of requests.get at time t:
\* online with the decoded body for a 200 whose body decodes, error for any
\* other status code, offline when requests.get or response.json() raised.
Observation(r, t) ==
    IF r.kind = "http"
    THEN IF r.code = 200
         THEN IF r.body.json = "invalid"
              THEN [status |-> "offline", data |-> None, last_updated |-> t]
              ELSE [status |-> "online", data |-> r.body, last_updated |-> t]
         ELSE [status |-> "error", data |-> None, last_updated |-> t]
    ELSE [status |-> "offline", data |-> None, last_updated |-> t]

\* A variant of Store that merges the new observation into the previous
\* one: a payload is overwritten only by a payload.
StoreMerged(h, device_id, obs) ==
    [k \in DOMAIN h \cup {device_id} |->
        IF k # device_id THEN h[k]
        ELSE IF device_id \in DOMAIN h /\ obs.data = None
             THEN [obs EXCEPT !.data = h[device_id].data]
             ELSE obs]

\* device_health_data[device_id] = obs
Store(h, device_id, obs) ==
    [k \in DOMAIN h \cup {device_id} |-> IF k = device_id THEN obs ELSE h[k]]

\* with discovery_lock: (the cycle's first statement)
PollAcquire ==
    /\ pollPc = "loop"
    /\ discovery_lock = "free"
    /\ discovery_lock' = "poll"
    /\ pollPc' = "copy"
    /\ qResult' = NoResult
    /\ wrote' = NoWrite
    /\ UNCHANGED <<toolVars, stopped>>
    /\ UNCHANGED <<discovered_devices, device_health_data, now, discVars,
                   devices_to_poll, pollIdx, response, published, written, downVars,
                   cycleDown, settled>>

\* Mutant of PollCopy: the for loop starts at the second item.
PollCopySkipsFirst ==
    /\ pollPc = "copy"
    /\ devices_to_poll' = discovered_devices
    /\ pollIdx' = 2
    /\ discovery_lock' = "free"
    /\ pollPc' = "for"
    /\ written' = {}
    /\ cycleDown' = netDown
    /\ qResult' = NoResult
    /\ wrote' = NoWrite
    /\ UNCHANGED <<toolVars, stopped>>
    /\ UNCHANGED <<discovered_devices, device_health_data, now, discVars, response,
                   published, downVars, settled>>

\* devices_to_poll = dict(discovered_devices), and the lock is released.
PollCopy ==
    /\ pollPc = "copy"
    /\ devices_to_poll' = discovered_devices
    /\ pollIdx' = 1
    /\ discovery_lock' = "free"
    /\ pollPc' = "for"
    /\ written' = {}
    /\ cycleDown' = netDown
    /\ qResult' = NoResult
    /\ wrote' = NoWrite
    /\ UNCHANGED <<toolVars, stopped>>
    /\ UNCHANGED <<discovered_devices, device_health_data, now, discVars, response,
                   published, downVars, settled>>

\* Mutant of PollProbeStart: the loop reads the directory again before every
\* probe.
PollProbeStartRereads ==
    /\ pollPc = "for"
    /\ discovery_lock = "free"
    /\ pollIdx <= Len(devices_to_poll)
    /\ pollIdx <= Len(discovered_devices)
    /\ devices_to_poll' = discovered_devices
    /\ pollPc' = "probing"
    /\ qResult' = NoResult
    /\ wrote' = NoWrite
    /\ UNCHANGED <<toolVars, stopped>>
    /\ UNCHANGED <<discovered_devices, device_health_data, discovery_lock, now, discVars,
                   pollIdx, response, published, written, downVars,
                   cycleDown, settled>>

\* The for loop takes its next item and calls requests.get(url, timeout=3).
PollProbeStart ==
    /\ pollPc = "for"
    /\ pollIdx <= Len(devices_to_poll)
    /\ pollPc' = "probing"
    /\ qResult' = NoResult
    /\ wrote' = NoWrite
    /\ UNCHANGED <<toolVars, stopped>>
    /\ UNCHANGED <<discovered_devices, device_health_data, discovery_lock, now, discVars,
                   devices_to_poll, pollIdx, response, published, written, downVars,
                   cycleDown, settled>>

\* Mutant of PollProbeDone: the exception of requests.get is not caught and
\* ends the thread.
PollProbeDoneRaises ==
    /\ pollPc = "probing"
    /\ \E r \in Answers(devices_to_poll[pollIdx].ip) :
          /\ response' = r
          /\ pollPc' = IF r.kind = "http" THEN "acquire" ELSE "dead"
    /\ qResult' = NoResult
    /\ wrote' = NoWrite
    /\ UNCHANGED <<toolVars, stopped>>
    /\ UNCHANGED <<discovered_devices, device_health_data, discovery_lock, now, discVars,
                   devices_to_poll, pollIdx, published, written, downVars,
                   cycleDown, settled>>

\* requests.get returns or raises.
PollProbeDone ==
    /\ pollPc = "probing"
    /\ \E r \in Answers(devices_to_poll[pollIdx].ip) : response' = r
    /\ pollPc' = "acquire"
    /\ qResult' = NoResult
    /\ wrote' = NoWrite
    /\ UNCHANGED <<toolVars, stopped>>
    /\ UNCHANGED <<discovered_devices, device_health_data, discovery_lock, now, discVars,
                   devices_to_poll, pollIdx, published, written, downVars,
                   cycleDown, settled>>

\* with discovery_lock: (of whichever branch the outcome selects)
PollWriteAcquire ==
    /\ pollPc = "acquire"
    /\ discovery_lock = "free"
    /\ discovery_lock' = "poll"
    /\ pollPc' = "write"
    /\ qResult' = NoResult
    /\ wrote' = NoWrite
    /\ UNCHANGED <<toolVars, stopped>>
    /\ UNCHANGED <<discovered_devices, device_health_data, now, discVars,
                   devices_to_poll, pollIdx, response, published, written, downVars,
                   cycleDown, settled>>

\* device_health_data[device_id] = {...}, and the lock is released.
PollWrite ==
    /\ pollPc = "write"
    /\ LET device_id == devices_to_poll[pollIdx].device_id
       IN  /\ device_health_data' =
                 Store(device_health_data, device_id, Observation(response, now))
           /\ written' = written \cup {device_id}
           /\ wrote' = [device_id |-> device_id, response |-> response]
    /\ pollIdx' = pollIdx + 1
    /\ response' = NoResponse
    /\ discovery_lock' = "free"
    /\ pollPc' = "for"
    /\ qResult' = NoResult
    /\ UNCHANGED <<toolVars, stopped>>
    /\ UNCHANGED <<discovered_devices, now, discVars, devices_to_poll, published,
                   downVars, cycleDown, settled>>

\* The for loop is over: time.sleep(2).
PollCycleEnd ==
    /\ pollPc = "for"
    /\ pollIdx > Len(devices_to_poll)
    /\ pollPc' = "loop"
    /\ devices_to_poll' = <<>>
    /\ pollIdx' = 1
    /\ written' = {}
    /\ settled' = (settled \/ cycleDown)
    /\ qResult' = NoResult
    /\ wrote' = NoWrite
    /\ UNCHANGED <<toolVars, stopped>>
    /\ UNCHANGED <<discovered_devices, device_health_data, discovery_lock, now, discVars,
                   response, published, downVars, cycleDown>>

\* ------------------------------------------------------------ get_devices

\* The default of device_health_data.get(device_id, {...}).
DefaultHealth == [status |-> "unknown", data |-> None, last_seen |-> 0]

RECURSIVE BuildList(_, _, _, _)
\* The loop of get_devices over discovered_devices.items(): the list of
\* entries, or KeyError when health['last_seen'] is read from a dict that
\* has no such key.
BuildList(dd, hd, i, devices_list) ==
    IF i > Len(dd) THEN [kind |-> "ok", devices |-> devices_list, count |-> Len(devices_list)]
    ELSE LET device_info == dd[i]
             health == IF device_info.device_id \in DOMAIN hd
                       THEN hd[device_info.device_id]
                       ELSE DefaultHealth
         IN  IF "last_seen" \notin DOMAIN health
             THEN [kind |-> "KeyError", devices |-> <<>>, count |-> 0]
             ELSE BuildList(dd, hd, i + 1,
                     Append(devices_list,
                            [device_id |-> device_info.device_id,
                             device_name |-> device_info.device_name,
                             ip |-> device_info.ip,
                             url |-> device_info.url,
                             status |-> health.status,
                             health |-> health.data,
                             last_seen |-> health.last_seen]))

\* GET /api/devices: the handler takes the lock, runs the loop and releases
\* the lock (at the end of the with block or when the exception leaves it),
\* then returns jsonify(...) or fails.  Nothing another thread can see
\* happens in between, so the request is one step, taken when the lock is free.
get_devices ==
    /\ discovery_lock = "free"
    /\ qResult' = BuildList(discovered_devices, device_health_data, 1, <<>>)
    /\ wrote' = NoWrite
    /\ UNCHANGED <<toolVars, stopped>>
    /\ UNCHANGED <<discovered_devices, device_health_data, discovery_lock, now, discVars,
                   pollVars, published, written, downVars, cycleDown, settled>>

\* The device_ids a toggle request is addressed to: one the scans can find
\* and one no device has.
ToggleIds == {"pi-01", "pi-07"}

\* The module never binds the global recording_state that toggle_recording
\* declares: no assignment at module level, none in any other function.
Unbound == "<unbound>"

recording_state == Unbound

\* POST /api/device/<device_id>/toggle_recording: "recording_state = not
\* recording_state" reads the global first, and reading an unbound global
\* raises NameError before anything is assigned or returned. The handler
\* reads neither device_id nor discovered_devices and sends no request.
toggle_recording ==
    /\ \E device_id \in ToggleIds :
          qResult' = IF recording_state = Unbound
                     THEN [kind |-> "NameError", device_id |-> device_id, url |-> <<>>]
                     ELSE [kind |-> "toggled", device_id |-> device_id, url |-> <<>>]
    /\ wrote' = NoWrite
    /\ UNCHANGED <<toolVars, stopped>>
    /\ UNCHANGED <<discovered_devices, device_health_data, discovery_lock, now, discVars,
                   pollVars, published, written, downVars, cycleDown, settled>>

\* ------------------------------------------------------------ environment

\* The device_ids of a list of candidates.
Ids(list) == { list[i].device_id : i \in DOMAIN list }

\* The status of device_id as the dashboard holds it.
StatusOf(device_id) ==
    IF device_id \in DOMAIN device_health_data
    THEN device_health_data[device_id].status
    ELSE "unknown"

\* From now on no host answers: every probe times out or finds the host
\* unreachable.  It happens while both threads sleep, so every scan and probe
\* is wholly before or wholly after it.  The devices that are listed and
\* online at that moment are remembered.
NetGoesDown ==
    /\ ~netDown
    /\ discPc = "loop"
    /\ pollPc = "loop"
    /\ netDown' = TRUE
    /\ watch' = { d \in Ids(published) : StatusOf(d) = "online" }
    /\ answers_null' = answers_null
    /\ qResult' = NoResult
    /\ wrote' = NoWrite
    /\ UNCHANGED <<toolVars, stopped>>
    /\ UNCHANGED <<discovered_devices, device_health_data, discovery_lock, now, discVars,
                   pollVars, published, written, cycleDown, settled>>

\* ------------------------------------------------- scan_network, step by step

\* The dashboard's state, which a stand-alone tool leaves alone.
dashVars == <<discovered_devices, device_health_data, discovery_lock, now, discVars,
              pollVars, qResult, published, written, wrote, downVars, cycleDown, settled,
              stopped>>

\* network.hosts() of the range given with --network, in address order.
ScanRange == <<"10.0.0.5", "10.0.0.9", "10.0.0.12">>

\* A second device that names itself.
Pi02Body ==
    [json |-> "object", device_id |-> "pi-02", device_name |-> "EweGo-2", battery |-> 40,
     battery_json |-> "object", gps_json |-> "absent"]

\* The outcome of requests.get(url, timeout=1) at a host of the scanned range.
ScanResponses(h) == Responses(h) \cup { [kind |-> "http", code |-> 200, body |-> Pi02Body] }

\* executor.submit(check_device, str(ip)) for every ip of network.hosts():
\* the work items are queued in address order.
ScanSubmit ==
    /\ scanPc = "idle"
    /\ work_queue' = ScanRange
    /\ scanPc' = "running"
    /\ UNCHANGED <<max_workers, in_flight, completed, scan_devices>>
    /\ UNCHANGED <<dashVars, listenerVars, deviceVars>>

\* Mutant of WorkerTake: a thread is started for every work item.
WorkerTakeUncapped ==
    /\ scanPc = "running"
    /\ work_queue # <<>>
    /\ in_flight' = in_flight \cup {Head(work_queue)}
    /\ work_queue' = Tail(work_queue)
    /\ UNCHANGED <<max_workers, scanPc, completed, scan_devices>>
    /\ UNCHANGED <<dashVars, listenerVars, deviceVars>>

\* ThreadPoolExecutor(max_workers=max_workers): the pool has at most
\* max_workers threads, each running one work item at a time; a thread that
\* is free (or can still be started) takes the oldest queued item and calls
\* check_device.
WorkerTake ==
    /\ scanPc = "running"
    /\ work_queue # <<>>
    /\ Cardinality(in_flight) < max_workers
    /\ in_flight' = in_flight \cup {Head(work_queue)}
    /\ work_queue' = Tail(work_queue)
    /\ UNCHANGED <<max_workers, scanPc, completed, scan_devices>>
    /\ UNCHANGED <<dashVars, listenerVars, deviceVars>>

\* Mutant of Collected: a result is skipped when the list already holds its
\* device_id.
CollectedOncePerId(list, result) ==
    IF result # NoDevice /\ \A i \in DOMAIN list : list[i].device_id # result.device_id
    THEN Append(list, result)
    ELSE list

\* result = future.result(); if result: devices.append(result)
Collected(list, result) == IF result # NoDevice THEN Append(list, result) ELSE list

\* A check_device call returns and as_completed hands its future to the
\* collection loop (any probe in flight can be the next to complete).
ProbeDone ==
    /\ scanPc = "running"
    /\ \E ip \in in_flight : \E r \in ScanResponses(ip) :
          /\ in_flight' = in_flight \ {ip}
          /\ completed' = Append(completed, [ip |-> ip, response |-> r])
          /\ scan_devices' = Collected(scan_devices, check_device(ip, r))
    /\ UNCHANGED <<max_workers, scanPc, work_queue>>
    /\ UNCHANGED <<dashVars, listenerVars, deviceVars>>

\* Every future has been collected: the with block ends and scan_network
\* returns devices.
ScanReturn ==
    /\ scanPc = "running"
    /\ work_queue = <<>>
    /\ in_flight = {}
    /\ scanPc' = "done"
    /\ UNCHANGED <<max_workers, work_queue, in_flight, completed, scan_devices>>
    /\ UNCHANGED <<dashVars, listenerVars, deviceVars>>

\* ------------------------------------------------------------ EweGoListener

\* A variant of add_service that stores an entry for the name before it
\* decodes the metadata.
add_serviceStoresFirst ==
    /\ \E info \in channel :
          IF info.info = "ok"
          THEN /\ listener_devices' = Upsert(listener_devices, info.name, ListenerRecord(info))
               /\ decode_failed' = decode_failed
          ELSE /\ listener_devices' =
                     Upsert(listener_devices, info.name,
                            [device_id |-> "unknown", ip |-> "unknown", port |-> info.port])
               /\ decode_failed' = [seen |-> TRUE, devices |-> listener_devices]
    /\ qResult' = NoResult
    /\ wrote' = NoWrite
    /\ UNCHANGED <<poolVars, deviceVars, channel, stopped>>
    /\ UNCHANGED <<discovered_devices, device_health_data, discovery_lock, now, discVars,
                   pollVars, published, written, downVars, cycleDown, settled>>

\* add_service: zc.get_service_info returns the announced record and
\* self.devices[name] = {...} stores it. When the info is None the body is
\* skipped; when a .decode or .rstrip raises, the exception leaves the
\* method before the assignment to self.devices[name]. The browser goes on
\* delivering events to the listener after either.
add_service ==
    /\ \E info \in channel :
          IF info.info = "ok"
          THEN /\ listener_devices' = Upsert(listener_devices, info.name, ListenerRecord(info))
               /\ decode_failed' = decode_failed
          ELSE /\ listener_devices' = listener_devices
               /\ decode_failed' = [seen |-> TRUE, devices |-> listener_devices]
    /\ qResult' = NoResult
    /\ wrote' = NoWrite
    /\ UNCHANGED <<poolVars, deviceVars, channel, stopped>>
    /\ UNCHANGED <<discovered_devices, device_health_data, discovery_lock, now, discVars,
                   pollVars, published, written, downVars, cycleDown, settled>>

\* if name in self.devices: del self.devices[name]
Removed(devs, name) ==
    IF name \in DOMAIN devs THEN [n \in DOMAIN devs \ {name} |-> devs[n]] ELSE devs

\* A variant of remove_service that also evicts the device from the
\* dashboard's dictionaries.
remove_serviceEvicts ==
    /\ \E name \in ServiceNames :
          IF name \in DOMAIN listener_devices
          THEN /\ listener_devices' = Removed(listener_devices, name)
               /\ discovered_devices' =
                     SelectSeq(discovered_devices,
                               LAMBDA e : e.device_id # listener_devices[name].device_id)
          ELSE /\ listener_devices' = listener_devices
               /\ discovered_devices' = discovered_devices
    /\ qResult' = NoResult
    /\ wrote' = NoWrite
    /\ UNCHANGED <<poolVars, deviceVars, channel, decode_failed, stopped>>
    /\ UNCHANGED <<device_health_data, discovery_lock, now, discVars,
                   pollVars, published, written, downVars, cycleDown, settled>>

\* remove_service, for any service name of the browsed type.
remove_service ==
    /\ \E name \in ServiceNames : listener_devices' = Removed(listener_devices, name)
    /\ qResult' = NoResult
    /\ wrote' = NoWrite
    /\ UNCHANGED <<poolVars, deviceVars, channel, decode_failed, stopped>>
    /\ UNCHANGED <<discovered_devices, device_health_data, discovery_lock, now, discVars,
                   pollVars, published, written, downVars, cycleDown, settled>>

\* ------------------------------------------------------------------ pi_app

\* The device's clock is followed up to this time.
MaxDeviceClock == 8

\* "if age > 5": the age in seconds after which GPS data counts as lost.
StaleAfter == 5

\* jsonify of a bool.
Json(b) == IF b THEN "true" ELSE "false"

\* The fix a GPS message can report (NAV-PVT fixType, GGA quality).
Fixes == {"no fix", "2D", "3D", "3D+RTK"}

\* Time passes on the device.
DeviceTick ==
    /\ device_clock < MaxDeviceClock
    /\ device_clock' = device_clock + 1
    /\ UNCHANGED <<gps_running, gps_data, device_recording, device_response>>
    /\ UNCHANGED <<dashVars, poolVars, listenerVars>>

\* gps_read_threading: the thread init_gps started reads a message,
\* process_gps_message sets the fix when the message reports one (a NAV-SAT
\* or RMC message leaves it), and the thread marks the data connected,
\* available and updated now.
GpsMessage ==
    /\ gps_running
    /\ \E fix \in Fixes \cup {gps_data.fix} :
          gps_data' = [connected |-> TRUE, fix |-> fix, available |-> TRUE,
                       has_last_update |-> TRUE, last_update |-> device_clock]
    /\ UNCHANGED <<gps_running, device_recording, device_clock, device_response>>
    /\ UNCHANGED <<dashVars, poolVars, listenerVars>>

\* get_gps_status: gps_data['last_update'] raises KeyError while the dict
\* has no such key; otherwise data older than StaleAfter seconds is marked
\* lost. The result is the dict as the function leaves it.
get_gps_status(g, t) ==
    IF ~g.has_last_update THEN [raised |-> TRUE, gps_data |-> g]
    ELSE IF t - g.last_update > StaleAfter
         THEN [raised |-> FALSE, gps_data |-> [g EXCEPT !.connected = FALSE, !.fix = "no fix"]]
         ELSE [raised |-> FALSE, gps_data |-> g]

\* GET /api/health: jsonify(get_system_metrics()) with the recording flag
\* and the gps section, or, when get_system_metrics raised, the except
\* branch's {'error': ...} with status 500.
health ==
    /\ LET status == get_gps_status(gps_data, device_clock)
       IN  /\ gps_data' = status.gps_data
           /\ device_response' =
                 IF status.raised
                 THEN [route |-> "health", code |-> 500, recording |-> Absent,
                       message |-> Absent, gps |-> NoGps]
                 ELSE [route |-> "health", code |-> 200,
                       recording |-> Json(device_recording), message |-> Absent,
                       gps |-> [present |-> TRUE,
                                connected |-> status.gps_data.connected,
                                fix |-> status.gps_data.fix,
                                available |-> status.gps_data.available]]
    /\ UNCHANGED <<gps_running, device_recording, device_clock>>
    /\ UNCHANGED <<dashVars, poolVars, listenerVars>>

\* POST /api/toggle_recording on the device: recording_state = not
\* recording_state, and the response reports the new value.
device_toggle_recording ==
    /\ device_recording' = ~device_recording
    /\ device_response' =
          [route |-> "toggle", code |-> 200, recording |-> Json(device_recording'),
           message |-> IF device_recording' THEN "Recording started" ELSE "Recording stopped",
           gps |-> NoGps]
    /\ UNCHANGED <<gps_running, gps_data, device_clock>>
    /\ UNCHANGED <<dashVars, poolVars, listenerVars>>

\* What requests.get gives the dashboard for a response of the device: a
\* 200 carries the device's status body, any other code no body the
\* dashboard reads.
AsProbe(resp) ==
    [kind |-> "http", code |-> resp.code,
     body |-> IF resp.code = 200 THEN NamedBody ELSE None]

\* ------------------------------------------------------------ process exit

\* A variant of Interrupt that waits until no thread holds the lock.
InterruptBetweenCycles ==
    /\ ~stopped
    /\ discovery_lock = "free"
    /\ stopped' = TRUE
    /\ qResult' = NoResult
    /\ wrote' = NoWrite
    /\ UNCHANGED toolVars
    /\ UNCHANGED <<discovered_devices, device_health_data, discovery_lock, now, discVars,
                   pollVars, published, written, downVars, cycleDown, settled>>

\* __main__: app.run returns (Ctrl+C) and the main thread ends. The two
\* loops are "while True" in threads started with daemon=True: no flag is
\* set for them and nothing joins them, the interpreter exits and they stop
\* wherever they are.
Interrupt ==
    /\ ~stopped
    /\ stopped' = TRUE
    /\ qResult' = NoResult
    /\ wrote' = NoWrite
    /\ UNCHANGED toolVars
    /\ UNCHANGED <<discovered_devices, device_health_data, discovery_lock, now, discVars,
                   pollVars, published, written, downVars, cycleDown, settled>>

\* --------------------------------------------------------- specifications

Discovery ==
    \/ DiscScanStart
    \/ DiscScanDone
    \/ DiscScanFail
    \/ DiscExcept
    \/ DiscAcquire
    \/ DiscClear
    \/ DiscInsert
    \/ DiscRelease

Poller ==
    \/ PollAcquire
    \/ PollCopy
    \/ PollProbeStart
    \/ PollProbeDone
    \/ PollWriteAcquire
    \/ PollWrite
    \/ PollCycleEnd

\* The three loops of the dashboard: the two daemon threads started by
\* __main__ and the requests Flask serves.
Next == Discovery \/ Poller \/ get_devices

Spec == Init /\ [][Next]_vars

\* The same program in a network that at some moment stops answering.
NextStale == Next \/ NetGoesDown

SpecStale == Init /\ [][NextStale]_vars

\* The same program with the clock running.
SpecClock == Init /\ [][Next \/ Tick]_vars

\* The dashboard next to a running announcement listener (discover_device.py).
NextAnnounce == Next \/ add_service \/ remove_service

SpecAnnounce == Init /\ [][NextAnnounce]_vars

\* The same program on a network where a host can answer its status request
\* with the JSON body null.
InitNull ==
    /\ DashboardStart
    /\ PoolStart(DefaultWorkers)
    /\ ListenerStart
    /\ channel = Announcements
    /\ DeviceStart(FALSE)
    /\ answers_null = TRUE

SpecNull == InitNull /\ [][Next]_vars

\* The dashboard with operators who also send toggle-recording commands.
NextToggle == Next \/ toggle_recording

SpecToggle == Init /\ [][NextToggle]_vars

\* The dashboard until its process exits.
Running == ~stopped /\ Next

NextShutdown == Running \/ Interrupt

SpecShutdown == Init /\ [][NextShutdown]_vars

\* discover_device.py run as a script: the listener and the events of the
\* browser, on a network with every kind of announcement.
\* The dashboard after one discovery cycle that found pi-01 at 10.0.0.5 and
\* one poll cycle that found it online.
DashboardAfterCycle ==
    /\ discovered_devices =
          <<[device_id |-> "pi-01", device_name |-> "EweGo-1", ip |-> "10.0.0.5",
             url |-> Url("10.0.0.5")]>>
    /\ device_health_data =
          [d \in {"pi-01"} |-> [status |-> "online", data |-> Pi01Body, last_updated |-> 1]]
    /\ discovery_lock = "free"
    /\ now = 1
    /\ discPc = "loop"
    /\ devices = <<>>
    /\ discIdx = 1
    /\ pollPc = "loop"
    /\ devices_to_poll = <<>>
    /\ pollIdx = 1
    /\ response = NoResponse
    /\ qResult = NoResult
    /\ published = <<[device_id |-> "pi-01", device_name |-> "EweGo-1", ip |-> "10.0.0.5"]>>
    /\ written = {}
    /\ wrote = NoWrite
    /\ netDown = FALSE
    /\ watch = {}
    /\ cycleDown = FALSE
    /\ settled = FALSE
    /\ stopped = FALSE

InitListener ==
    /\ DashboardStart \/ DashboardAfterCycle
    /\ PoolStart(DefaultWorkers)
    /\ ListenerStart
    /\ channel = Traffic
    /\ DeviceStart(FALSE)
    /\ answers_null = FALSE

NextListener == add_service \/ remove_service

SpecListener == InitListener /\ [][NextListener]_vars

\* pi_app.py run on a device, with or without a GPS it can open.
InitDevice ==
    /\ DashboardStart
    /\ PoolStart(DefaultWorkers)
    /\ ListenerStart
    /\ channel = Announcements
    /\ answers_null = FALSE
    /\ \E g \in BOOLEAN : DeviceStart(g)

NextDevice == DeviceTick \/ GpsMessage \/ health \/ device_toggle_recording

SpecDevice == InitDevice /\ [][NextDevice]_vars

\* scan_network.py run as a script with --workers 1..MaxWorkers.
InitScan ==
    /\ DashboardStart
    /\ \E w \in 1..MaxWorkers : PoolStart(w)
    /\ ListenerStart
    /\ channel = Announcements
    /\ DeviceStart(FALSE)
    /\ answers_null = FALSE

NextScan == ScanSubmit \/ WorkerTake \/ ProbeDone \/ ScanReturn

SpecScan == InitScan /\ [][NextScan]_vars

\* ------------------------------------------------------ what is expected

\* The record a whole candidate stands for.
ExpectedRecord(c) ==
    [device_id |-> c.device_id, ip |-> c.ip, url |-> <<"http", c.ip, 5000>>,
     device_name |-> c.device_name]

\* The directory after a whole batch: one item per device_id, placed where
\* the device_id first occurs in the list and built from its last occurrence.
Batch(list) ==
    LET firsts == { i \in DOMAIN list :
                      \A j \in 1..(i - 1) : list[j].device_id # list[i].device_id }
        last(id) == list[CHOOSE i \in DOMAIN list :
                           /\ list[i].device_id = id
                           /\ \A j \in (i + 1)..Len(list) : list[j].device_id # id]
        nth(k) == CHOOSE i \in firsts : Cardinality({ j \in firsts : j < i }) = k - 1
    IN  [k \in 1..Cardinality(firsts) |-> ExpectedRecord(last(list[nth(k)].device_id))]

\* The last step was a request to GET /api/devices.
Queried == qResult.kind \in {"ok", "KeyError"}

\* The last step was a health write.
Wrote == wrote.device_id # ""

\* The probe succeeded: a success response whose body parses.
Succeeded(r) == r.kind = "http" /\ r.code = 200 /\ r.body.json # "invalid"

\* The entries of the snapshot the last step returned.
Entries == { qResult.devices[i] : i \in DOMAIN qResult.devices }

\* ----------------------------------------------------------------- claims

\* C1 (as claimed): the fleet query returns a snapshot and never raises, in
\* every reachable state of the directory.  The code raises KeyError as soon
\* as a listed device has a health observation.
C1_QueryNeverRaises == Queried => qResult.kind = "ok"

\* C2 (as claimed): a discovery cycle never removes an entry: every device_id
\* listed before the cycle is listed when the cycle has published its batch.
C2_EntriesNeverRemoved ==
    [][(discovery_lock = "disc" /\ discovery_lock' = "free")
         => Ids(published) \subseteq Keys(discovered_devices')]_vars

\* C2 (amended): when a discovery cycle publishes, the directory holds
\* exactly the device_ids of that cycle's scan result, so an entry survives
\* the cycle only if the scan found its device_id again; outside the
\* discovery thread's critical section nothing changes the directory (poll
\* cycles, queries and a failed scan leave every entry in place).
C2_DirectoryIsLastScan ==
    [][/\ (discovery_lock = "disc" /\ discovery_lock' = "free")
            => Keys(discovered_devices') = Ids(devices)
       /\ (discovery_lock # "disc" /\ discovery_lock' # "disc")
            => discovered_devices' = discovered_devices]_vars

\* C2 witness: a device of the running poll cycle's snapshot is no longer in
\* the directory after a discovery cycle has completed.
C2_Witness ==
    /\ discPc = "loop"
    /\ discovery_lock = "free"
    /\ \E d \in Keys(devices_to_poll) : d \notin Keys(discovered_devices)

\* C3 (as claimed): once a poll cycle that started after the network went
\* down has completed, every device that was online before is still listed,
\* its recorded status is offline, and a query returns it as offline.
C3_OfflineAfterNextCycle ==
    (settled /\ discovery_lock # "disc")
      => \A d \in watch :
            /\ d \in Keys(discovered_devices)
            /\ StatusOf(d) = "offline"
            /\ Queried => /\ qResult.kind = "ok"
                          /\ \E e \in Entries : e.device_id = d /\ e.status = "offline"

\* C4 (as claimed): a successful probe is written as online with a non-empty
\* payload equal to the decoded body.
C4_OnlineNonEmptyPayload ==
    (Wrote /\ Succeeded(wrote.response))
      => /\ device_health_data[wrote.device_id].status = "online"
         /\ device_health_data[wrote.device_id].data = wrote.response.body
         /\ device_health_data[wrote.device_id].data \notin {EmptyObject, None}

\* C4 (amended): a successful probe is written as online with the decoded
\* body as payload, whatever the body holds (an empty object is stored as an
\* empty payload).
C4_OnlineWithDecodedBody ==
    (Wrote /\ Succeeded(wrote.response))
      => /\ device_health_data[wrote.device_id].status = "online"
         /\ device_health_data[wrote.device_id].data = wrote.response.body

\* C4 witness: the body of the scenario, {"device_id": "pi-01", "battery": 72},
\* has just been written.
C4_Witness ==
    /\ Wrote
    /\ wrote.response.body = Pi01Flat
    /\ Succeeded(wrote.response)
    /\ device_health_data[wrote.device_id].data.battery = 72

\* C5: a probe that timed out is written as offline with payload None, also
\* when part of a body had been received.
C5_TimeoutIsOffline ==
    (Wrote /\ wrote.response.kind = "timeout")
      => /\ device_health_data[wrote.device_id].status = "offline"
         /\ device_health_data[wrote.device_id].data = None

\* C5 witness: a timeout after partial data has just been written.
C5_Witness ==
    /\ Wrote
    /\ wrote.response.kind = "timeout"
    /\ wrote.response.body # None
    /\ device_health_data[wrote.device_id].status = "offline"

\* C6: the written status is error exactly when the host answered with a
\* non-success status code; every other failed probe is written as offline;
\* error and offline both carry payload None.
C6_ErrorIffBadStatus ==
    Wrote =>
      LET r == wrote.response
          obs == device_health_data[wrote.device_id]
      IN  /\ obs.status = "error" <=> (r.kind = "http" /\ r.code # 200)
          /\ (~Succeeded(r) /\ ~(r.kind = "http" /\ r.code # 200)) => obs.status = "offline"
          /\ obs.status \in {"error", "offline"} => obs.data = None

\* C6 witness: a success status whose body does not parse has just been
\* written as offline.
C6_Witness ==
    /\ Wrote
    /\ wrote.response.kind = "http"
    /\ wrote.response.code = 200
    /\ wrote.response.body = Invalid
    /\ device_health_data[wrote.device_id].status = "offline"

\* The steps by which the poller takes up or writes a device.
PollerMovesOn == PollProbeStart \/ PollWriteAcquire \/ PollWrite

C8_NoLockAcrossNetwork ==
    /\ discPc = "scanning" => discovery_lock # "disc"
    /\ pollPc = "probing" => discovery_lock # "poll"
    /\ discovery_lock = "disc" => discPc \in {"clear", "insert"}
    /\ discovery_lock = "poll" => pollPc \in {"copy", "write"}

\* C8 witness: the scan and a probe are in flight and the lock is free.
C8_Witness ==
    /\ discPc = "scanning"
    /\ pollPc = "probing"
    /\ discovery_lock = "free"

\* C9: whenever a reader can hold the lock, the directory is the whole batch
\* of the last completed discovery cycle, and the snapshot a query returns
\* lists exactly that batch.
C9_BatchIsAtomic ==
    /\ discovery_lock # "disc" => discovered_devices = Batch(published)
    /\ qResult.kind = "ok"
         => /\ Len(qResult.devices) = Len(Batch(published))
            /\ \A i \in DOMAIN qResult.devices :
                  qResult.devices[i].device_id = Batch(published)[i].device_id

\* C9 witness: a query returns the previous batch while the discovery thread
\* waits for the lock with a new, empty batch.
C9_Witness ==
    /\ qResult.kind = "ok"
    /\ qResult.devices # <<>>
    /\ discPc = "acquire"
    /\ devices = <<>>

Range(list) == { list[i] : i \in DOMAIN list }

\* The places device_id has in a dict.
Places(d, device_id) == { i \in DOMAIN d : d[i].device_id = device_id }

\* C11: a device_id has at most one entry in the directory, whatever the
\* discovery cycles reported; once a cycle has published, the entry's ip is
\* an address that cycle reported for the device_id (not one only an
\* earlier cycle reported) and its url is built from that ip.
C11_OneEntryLatestAddress ==
    \A i \in DOMAIN discovered_devices :
       LET entry == discovered_devices[i]
       IN  /\ Places(discovered_devices, entry.device_id) = {i}
           /\ discovery_lock # "disc"
                 => /\ \E k \in DOMAIN published :
                          /\ published[k].device_id = entry.device_id
                          /\ published[k].ip = entry.ip
                    /\ entry.url = <<"http", entry.ip, 5000>>

\* C11 witness: the running poll cycle's snapshot still has pi-01 at the
\* address of an earlier discovery cycle; the last cycle reported it at one
\* other address only, and the directory holds one entry, at that address.
C11_Witness ==
    /\ discovery_lock = "free"
    /\ "pi-01" \in Keys(devices_to_poll)
    /\ Len(published) = 1
    /\ published[1].device_id = "pi-01"
    /\ published[1].ip # Get(devices_to_poll, "pi-01").ip
    /\ Len(discovered_devices) = 1
    /\ discovered_devices[1].ip = published[1].ip

\* The lists scan_network can return for the same responders: the same
\* candidates in another completion order.
Reorderings(list) == { p \in [DOMAIN list -> Range(list)] : Range(p) = Range(list) }

\* The address the directory carries for device_id after list is published.
PublishedIp(list, device_id) == Get(Batch(list), device_id).ip

\* C12 (as claimed): the address the directory will carry for a device_id is
\* fixed by the responders of the scan: had the same probes completed in
\* another order, the published address would be the same.
C12_AddressFixedByResponders ==
    [][(discPc = "scanning" /\ discPc' = "acquire")
         => \A other \in Reorderings(devices') : \A device_id \in Ids(devices') :
               PublishedIp(other, device_id) = PublishedIp(devices', device_id)]_vars

\* C13 (as claimed): the list scan_network returns has no two candidates with
\* the same device_id.
C13_ScanListDuplicateFree ==
    scanPc = "done" => \A i \in DOMAIN scan_devices : Places(scan_devices, scan_devices[i].device_id) = {i}

\* What check_device returned for the probes completed so far.
Results == { check_device(c.ip, c.response) : c \in Range(completed) }

\* C13 (amended): the list holds exactly one candidate for every address
\* that answered with identity fields, carrying what that address answered;
\* it is duplicate-free by address, not by device_id.
C13_OneCandidatePerResponder ==
    /\ \A i, j \in DOMAIN scan_devices : scan_devices[i].ip = scan_devices[j].ip => i = j
    /\ Range(scan_devices) = Results \ {NoDevice}

\* C13 witness: the returned list holds pi-01 twice, at two addresses.
C13_Witness ==
    /\ scanPc = "done"
    /\ \E i, j \in DOMAIN scan_devices :
          /\ scan_devices[i].device_id = "pi-01"
          /\ scan_devices[j].device_id = "pi-01"
          /\ scan_devices[i].ip # scan_devices[j].ip

\* The address answered the status request with a device_id of its own.
Identified(r) ==
    r.kind = "http" /\ r.code = 200 /\ r.body.json = "object" /\ r.body.device_id # Absent

\* The address did not answer.
NoAnswer(r) == r.kind \in {"timeout", "unreachable"}

\* The probes of the scan that were answered with a device_id.
Reachable == { c \in Range(completed) : Identified(c.response) }

\* The range of the claim: every address either answers with a device_id no
\* other address answers with, or does not answer.
DistinctOrSilent ==
    /\ \A c \in Range(completed) : Identified(c.response) \/ NoAnswer(c.response)
    /\ \A c, d \in Reachable :
          c.response.body.device_id = d.response.body.device_id => c = d

\* C14 (as claimed): when scan_network returns, every address of the range
\* has been probed once, and for a range of N identified and M silent
\* addresses the list holds exactly the N device_ids, once each, for every
\* pool size the scan is run with.  The code leaves out an identified
\* address whose "battery" is not an object.
C14_ExactlyTheReachable ==
    scanPc = "done"
      => /\ { c.ip : c \in Range(completed) } = Range(ScanRange)
         /\ Len(completed) = Len(ScanRange)
         /\ DistinctOrSilent
               => /\ Ids(scan_devices) = { c.response.body.device_id : c \in Reachable }
                  /\ Len(scan_devices) = Cardinality(Reachable)

\* C15: the number of probes in flight is never above max_workers.
C15_InFlightAtMostMaxWorkers == Cardinality(in_flight) <= max_workers

\* C15 witness: a pool of two workers is full while a third probe waits in
\* the queue.
C15_Witness ==
    /\ max_workers = 2
    /\ Cardinality(in_flight) = 2
    /\ work_queue # <<>>

\* The listener holds an announcement of device_id at ip.
Announced(device_id, ip) ==
    \E n \in DOMAIN listener_devices :
       listener_devices[n].device_id = device_id /\ listener_devices[n].ip = ip

\* The discovery thread leaves its critical section: the batch is published.
Publishes == discovery_lock = "disc" /\ discovery_lock' = "free"

\* C16 (as claimed): when a discovery cycle whose scan found nothing
\* publishes while the listener holds pi-01's announcement at 10.0.0.5, the
\* directory has exactly one entry for pi-01, with ip 10.0.0.5.
C16_AnnouncedIsPublished ==
    [][(Publishes /\ devices = <<>> /\ Announced("pi-01", "10.0.0.5"))
         => /\ Cardinality(Places(discovered_devices', "pi-01")) = 1
            /\ Get(discovered_devices', "pi-01").ip = "10.0.0.5"]_vars

\* C16 (amended): the directory is filled from the active scan alone: when a
\* cycle publishes, an announced device is listed exactly if the scan found
\* its device_id (so not at all after a scan that found nothing), and an
\* announcement or its withdrawal changes neither records nor observations.
C16_OnlyScannedIsPublished ==
    [][/\ Publishes
            => \A n \in DOMAIN listener_devices :
                  listener_devices[n].device_id \in Keys(discovered_devices')
                     <=> listener_devices[n].device_id \in Ids(devices)
       /\ listener_devices' # listener_devices
            => /\ discovered_devices' = discovered_devices
               /\ device_health_data' = device_health_data]_vars

\* C16 witness: pi-01 has announced at 10.0.0.5, the scan found nothing, and
\* the cycle has written its (empty) batch and is about to release the lock.
C16_Witness ==
    /\ Announced("pi-01", "10.0.0.5")
    /\ discPc = "insert"
    /\ discovery_lock = "disc"
    /\ devices = <<>>
    /\ discovered_devices = <<>>

\* C17: a poll cycle's snapshot is the directory as it is when the cycle
\* takes the lock for its copy; it stays as it is until the cycle ends,
\* whatever happens to the directory; every write of the cycle is for the
\* snapshot's device the loop is at, with the outcome of the probe of that
\* device's address; and the next snapshot is taken, or the snapshot
\* dropped, only when no device of the cycle is left to probe or write.
C17_SnapshotOncePerCycle ==
    [][/\ devices_to_poll' # devices_to_poll
            => \/ /\ pollPc = "copy"
                  /\ devices_to_poll' = discovered_devices
                  /\ devices_to_poll = <<>>
                  /\ response = NoResponse
               \/ /\ pollPc = "for"
                  /\ pollIdx > Len(devices_to_poll)
                  /\ written = Keys(devices_to_poll)
                  /\ devices_to_poll' = <<>>
       /\ wrote'.device_id # ""
            => /\ pollIdx \in DOMAIN devices_to_poll
               /\ wrote'.device_id = devices_to_poll[pollIdx].device_id
               /\ wrote'.response \in Responses(devices_to_poll[pollIdx].ip)]_vars

\* C17 witness: the second device of a snapshot is about to be written after
\* a discovery cycle has emptied the directory.
C17_Witness ==
    /\ pollPc = "write"
    /\ pollIdx = 2
    /\ Len(devices_to_poll) = 2
    /\ discovered_devices = <<>>
    /\ discPc = "loop"

\* The positions of the polling thread.
PollPositions == {"loop", "copy", "for", "probing", "acquire", "write"}

\* C18: whatever a probe's outcome, the thread goes on to write an
\* observation for the probed device (one the cycle has not written yet);
\* a cycle ends only when every device of its snapshot has been written; and
\* the thread always has a next step, waiting for nothing but the lock.
C18_ProbeErrorNeverAborts ==
    [][/\ pollPc' \in PollPositions
       /\ (pollPc = "probing" /\ pollPc' # "probing") => pollPc' = "acquire"
       /\ (pollPc = "acquire" /\ pollPc' # "acquire") => pollPc' = "write"
       /\ (pollPc = "write" /\ pollPc' # "write")
            => LET device_id == devices_to_poll[pollIdx].device_id
               IN  /\ device_id \notin written
                   /\ written' = written \cup {device_id}
                   /\ device_id \in DOMAIN device_health_data'
                   /\ device_health_data'[device_id].status \in {"online", "error", "offline"}
       /\ (pollPc # "loop" /\ pollPc' = "loop") => written = Keys(devices_to_poll)
       /\ (pollPc \notin {"loop", "acquire"} \/ discovery_lock = "free") => ENABLED Poller]_vars

\* C18 witness: a cycle over two devices has written both, the first as
\* offline after its probe failed, the second as online.
C18_Witness ==
    /\ pollPc = "for"
    /\ Len(devices_to_poll) = 2
    /\ pollIdx = 3
    /\ written = Keys(devices_to_poll)
    /\ device_health_data[devices_to_poll[1].device_id].status = "offline"
    /\ device_health_data[devices_to_poll[2].device_id].status = "online"

\* The steps of a discovery cycle whose scan fails, after the scan's start.
FailureSteps ==
    \/ discPc = "scanning" /\ discPc' = "except"
    \/ discPc = "except" /\ discPc' = "loop"

\* C19: while a scan is in flight and while its failure is handled no
\* record changes; the steps by which the thread takes the failure (into
\* its except clause, and from there into its sleep) change no record, no
\* observation and not the lock; and from its sleep the thread can start the
\* next scan.
C19_ScanFailureIsLocal ==
    [][/\ discPc \in {"scanning", "except"} => discovered_devices' = discovered_devices
       /\ FailureSteps
            => /\ device_health_data' = device_health_data
               /\ discovery_lock' = discovery_lock
       /\ (discPc = "except" /\ discPc' # "except") => discPc' = "loop"
       /\ discPc = "except" => ENABLED DiscExcept
       /\ discPc = "loop" => ENABLED DiscScanStart]_vars

\* C19 witness: a scan has failed while the directory lists a device that
\* has an observation.
C19_Witness ==
    /\ discPc = "except"
    /\ discovered_devices # <<>>
    /\ \E i \in DOMAIN discovered_devices :
          discovered_devices[i].device_id \in DOMAIN device_health_data

\* C20: no step of the discovery thread, and no step taken while it holds
\* the lock, changes a health observation.
C20_DiscoveryLeavesHealth ==
    [][(discVars' # discVars \/ discovered_devices' # discovered_devices
          \/ discovery_lock = "disc" \/ discovery_lock' = "disc")
         => device_health_data' = device_health_data]_vars

\* C20 witness: a cycle has published an empty batch and the observation of
\* a device it removed is still stored.
C20_Witness ==
    /\ discPc = "loop"
    /\ discovery_lock = "free"
    /\ discovered_devices = <<>>
    /\ "pi-01" \in DOMAIN device_health_data
    /\ device_health_data["pi-01"].status = "online"

\* C21 (as claimed): the loops stop only between cycles: when the process
\* has stopped, both threads are at the top of their loop and no thread
\* holds the lock.
C21_StopsOnlyBetweenCycles ==
    stopped => /\ discPc = "loop"
               /\ pollPc = "loop"
               /\ discovery_lock = "free"

\* C21: the loops run until the process exits and no longer: every step
\* starts in a running process, the exit can come in every state of the
\* two threads, and it leaves threads, lock and dictionaries as they were.
C21_LoopsRunUntilProcessExit ==
    [][/\ ~stopped
       /\ ENABLED Interrupt
       /\ stopped' => /\ discVars' = discVars
                      /\ pollVars' = pollVars
                      /\ discovery_lock' = discovery_lock
                      /\ discovered_devices' = discovered_devices
                      /\ device_health_data' = device_health_data]_vars

\* C21 witness: the process has stopped while the discovery thread held the
\* lock with the directory cleared and only part of the batch inserted.
C21_Witness ==
    /\ stopped
    /\ discPc = "insert"
    /\ discovery_lock = "disc"
    /\ Len(discovered_devices) < Len(Batch(devices))

\* C22: a removal takes exactly the removed name out of the listener's map
\* and nothing for a name the map does not hold, and a step that changes
\* the listener's map changes no record and no observation of the dashboard.
C22_RemovalTouchesListenerOnly ==
    [][/\ \A name \in ServiceNames :
             /\ DOMAIN Removed(listener_devices, name) = DOMAIN listener_devices \ {name}
             /\ \A n \in DOMAIN listener_devices \ {name} :
                   Removed(listener_devices, name)[n] = listener_devices[n]
             /\ name \notin DOMAIN listener_devices
                   => Removed(listener_devices, name) = listener_devices
       /\ DOMAIN listener_devices \ DOMAIN listener_devices' # {}
             => \E name \in DOMAIN listener_devices :
                   listener_devices' = Removed(listener_devices, name)
       /\ listener_devices' # listener_devices
             => /\ discovered_devices' = discovered_devices
                /\ device_health_data' = device_health_data]_vars

\* C22 witness: the listener has dropped the announcement of pi-01 (its
\* other entry is still held) while the directory lists pi-01 with its
\* observation.
C22_Witness ==
    /\ decode_failed.seen
    /\ DOMAIN decode_failed.devices = ServiceNames
    /\ DOMAIN listener_devices = {"pi-02._ewego._tcp.local."}
    /\ "pi-01" \in Keys(discovered_devices)
    /\ "pi-01" \in DOMAIN device_health_data

Toggled == qResult.kind \in {"NameError", "toggled", "forwarded"}

\* C24 (as claimed): a toggle addressed to a device_id of the directory is
\* handed off to the url the directory holds for that device_id.
C24_ToggleResolvesUrl ==
    (Toggled /\ qResult.device_id \in Keys(discovered_devices))
       => /\ qResult.kind = "forwarded"
          /\ qResult.url = Get(discovered_devices, qResult.device_id).url

\* C25 (as claimed): a query returns every directory entry that has no
\* health observation with status unknown, a null payload and timestamp 0,
\* and the count it returns is the length of the list it returns.
C25_UnobservedListedAsUnknown ==
    Queried
       => /\ \A i \in DOMAIN discovered_devices :
                discovered_devices[i].device_id \notin DOMAIN device_health_data
                   => /\ qResult.kind = "ok"
                      /\ \E j \in DOMAIN qResult.devices :
                            /\ qResult.devices[j].device_id = discovered_devices[i].device_id
                            /\ qResult.devices[j].status = "unknown"
                            /\ qResult.devices[j].health = None
                            /\ qResult.devices[j].last_seen = 0
          /\ qResult.kind = "ok" => qResult.count = Len(qResult.devices)

\* A probe's answer is a success response whose parsed body contains
\* device_id or device_name.
HasIdentity(r) ==
    /\ r.kind = "http"
    /\ r.code = 200
    /\ r.body.json = "object"
    /\ (r.body.device_id # Absent \/ r.body.device_name # Absent)

\* C26 (as claimed): when scan_network has returned, every host of the
\* range was probed exactly once, no probe is queued or running, and an
\* address is in the returned list if and only if its probe got a success
\* response whose body contains device_id or device_name; until then the
\* scan can always take a step.
C26_OneProbePerHostCollectedIffIdentified ==
    /\ scanPc = "done"
          => /\ Len(completed) = Len(ScanRange)
             /\ { completed[i].ip : i \in DOMAIN completed } = Range(ScanRange)
             /\ work_queue = <<>>
             /\ in_flight = {}
             /\ \A i \in DOMAIN completed :
                   (\E j \in DOMAIN scan_devices : scan_devices[j].ip = completed[i].ip)
                      <=> HasIdentity(completed[i].response)
    /\ scanPc \in {"idle", "running"} => ENABLED NextScan

\* C27 (as claimed): every stored observation has a status of online, error
\* or offline, and a payload that is not null exactly when its status is
\* online.
C27_PayloadIffOnline ==
    \A d \in DOMAIN device_health_data :
       /\ device_health_data[d].status \in {"online", "error", "offline"}
       /\ device_health_data[d].data # None <=> device_health_data[d].status = "online"

\* C27: every stored observation has a status of online, error or offline
\* and a null payload unless its status is online, and the observation a
\* write leaves holds what the probe gave and nothing of the one before:
\* the decoded body of a probe that succeeded (null when the body was null),
\* a null payload otherwise.
C27_PayloadOnlyIfOnline ==
    /\ \A d \in DOMAIN device_health_data :
          /\ DOMAIN device_health_data[d] = {"status", "data", "last_updated"}
          /\ device_health_data[d].status \in {"online", "error", "offline"}
          /\ device_health_data[d].data # None => device_health_data[d].status = "online"
    /\ Wrote
          => /\ device_health_data[wrote.device_id].status = "online"
                   <=> Succeeded(wrote.response)
             /\ device_health_data[wrote.device_id].data =
                   IF Succeeded(wrote.response) THEN wrote.response.body ELSE None

\* C27 witness: a device answered its status request with the body null and
\* the write has stored it as online with a null payload.
C27_Witness ==
    /\ Wrote
    /\ wrote.response = [kind |-> "http", code |-> 200, body |-> None]
    /\ device_health_data[wrote.device_id].status = "online"
    /\ device_health_data[wrote.device_id].data = None

\* In the running poll cycle, device_id d was written from the address of
\* the cycle's snapshot while the directory now holds another address for it.
WrittenFromOldAddress(d) ==
    /\ pollPc # "loop"
    /\ d \in written
    /\ d \in Keys(discovered_devices)
    /\ \E i \in 1..(pollIdx - 1) :
          /\ i \in DOMAIN devices_to_poll
          /\ devices_to_poll[i].device_id = d
          /\ devices_to_poll[i].ip # Get(discovered_devices, d).ip

\* C28 (as claimed): a health write is for the device at the cycle's
\* position in the start snapshot, a device_id gets its first observation
\* only from a snapshot that holds it, and a query made while an entry's
\* observation comes from the address the device had at the cycle's start
\* returns that entry, with its current url and that observation's status.
C28_StaleStatusIsReturned ==
    [][/\ Wrote'
             => /\ pollIdx \in DOMAIN devices_to_poll
                /\ wrote'.device_id = devices_to_poll[pollIdx].device_id
       /\ DOMAIN device_health_data' \ DOMAIN device_health_data
             \subseteq Keys(devices_to_poll)
       /\ Queried'
             => \A d \in Keys(discovered_devices) :
                   WrittenFromOldAddress(d)
                      => /\ qResult'.kind = "ok"
                         /\ \E j \in DOMAIN qResult'.devices :
                               /\ qResult'.devices[j].device_id = d
                               /\ qResult'.devices[j].url = Get(discovered_devices, d).url
                               /\ qResult'.devices[j].status = device_health_data[d].status]_vars

\* Device d has an observation, was not in the directory when the running
\* poll cycle took its snapshot, and is in the directory again.
Rediscovered(d) ==
    /\ pollPc \in {"for", "probing", "acquire"}
    /\ d \in DOMAIN device_health_data
    /\ d \notin Keys(devices_to_poll)
    /\ d \in Keys(discovered_devices)

\* C29 (as claimed): no step removes a device_id from the health
\* observations, and a query returns a re-discovered device with the status
\* and payload of its last observation.
C29_LastObservationIsReturned ==
    [][/\ DOMAIN device_health_data \subseteq DOMAIN device_health_data'
       /\ Queried'
             => \A d \in Keys(discovered_devices) :
                   Rediscovered(d)
                      => /\ qResult'.kind = "ok"
                         /\ \E j \in DOMAIN qResult'.devices :
                               /\ qResult'.devices[j].device_id = d
                               /\ qResult'.devices[j].status = device_health_data[d].status
                               /\ qResult'.devices[j].health = device_health_data[d].data]_vars

\* The body has a device_name and no device_id.
Nameless(r) ==
    /\ r.kind = "http"
    /\ r.code = 200
    /\ r.body.json = "object"
    /\ r.body.device_id = Absent
    /\ r.body.device_name # Absent

\* C30: every candidate the scanner made from a body with a device_name and
\* no device_id has the device_id 'unknown', and the directory a discovery
\* cycle builds from the scan's list has at most one entry with that id.
C30_NamelessDevicesShareOneEntry ==
    /\ \A i \in DOMAIN completed :
          Nameless(completed[i].response)
             => \A j \in DOMAIN scan_devices :
                   scan_devices[j].ip = completed[i].ip
                      => scan_devices[j].device_id = "unknown"
    /\ Cardinality({ k \in DOMAIN Published(scan_devices) :
                        Published(scan_devices)[k].device_id
                           \notin {"pi-01", "pi-02"} }) <= 1

\* C30 witness: the scan has returned two devices with a device_name and no
\* device_id at two addresses, and the directory built from them has one
\* entry, 'unknown'.
C30_Witness ==
    /\ scanPc = "done"
    /\ Cardinality({ i \in DOMAIN completed : Nameless(completed[i].response) }) = 2
    /\ Cardinality({ scan_devices[j].ip : j \in DOMAIN scan_devices }) = 2
    /\ \A j \in DOMAIN scan_devices : scan_devices[j].device_id = "unknown"
    /\ Keys(Published(scan_devices)) = {"unknown"}
    /\ Len(Published(scan_devices)) = 1

\* C31 (as claimed): every answer of the device's status endpoint is a
\* success response with a gps section, whatever the GPS data holds, and the
\* dashboard does not record the device as error for it.
C31_HealthAnswersWithGps ==
    device_response.route = "health"
       => /\ device_response.code = 200
          /\ device_response.gps.present
          /\ Observation(AsProbe(device_response), now).status # "error"

\* The step is a toggle request served by the device.
DeviceToggled == device_response'.route = "toggle" /\ device_response' # device_response

\* C32 (as claimed): a toggle flips the device's recording state and
\* answers with the new value and the matching message, a toggle that
\* follows a toggle restores the state before the first, and the latest
\* status response reports the recording state the last toggle left.
C32_ToggleFlipsAndHealthReports ==
    [][/\ DeviceToggled
             => /\ device_recording' = ~device_recording
                /\ device_response'.code = 200
                /\ device_response'.recording = Json(device_recording')
                /\ device_response'.message =
                      IF device_recording' THEN "Recording started" ELSE "Recording stopped"
       /\ (DeviceToggled /\ device_response.route = "toggle")
             => Json(device_recording') # device_response.recording
       /\ device_response'.route = "health"
             => device_response'.recording = Json(device_recording')]_vars
====
